---------------------------- MODULE Spec2Model ----------------------------
(***************************************************************************)
(* Model of src/app.py, the Streamlit page "Nuclear Isotope Economics".    *)
(*                                                                         *)
(* Streamlit runs main() from top to bottom on every widget interaction.   *)
(* The model follows one run of main() through the places where it builds  *)
(* data: the filter of tab 1 (lines 165-170), the 3D trace (192-212), the  *)
(* download button (249), the market value and its bar chart (273-282),    *)
(* the country load (296, 69-89), the cleaning (303-305) and the country   *)
(* bar chart (307-313).  A widget change abandons the run and starts a new *)
(* one with the new parameters.                                            *)
(*                                                                         *)
(* Numbers.  TLC has 32-bit integers and no reals, so                      *)
(*   - a half-life or slider value is a decimal with one fractional digit, *)
(*     [h |-> whole hours, t |-> tenths], value h + t/10 (5.2 = D(5,2));   *)
(*   - Global_Production is counted in units of 100 TBq/year, Cost_per_GBq *)
(*     in units of 0.5 USD, hence Market_Value in units of 50 USD: the     *)
(*     product P * C * 1000 of line 273 is kept as written;                *)
(*   - Total_Production_TBq is counted in tenths of a TBq (30.4 = 304);    *)
(*   - log10 is kept by its value class (finite, -inf, nan) and, when      *)
(*     finite, its integer part (the characteristic).                      *)
(* Not modelled: the CSS, the decorative background (create_atomic_        *)
(* background), the 2D scatter of tab 2 and tab 4, which build no data the *)
(* properties below speak about.                                           *)
(***************************************************************************)
EXTENDS Integers, Sequences, FiniteSets, TLC

VARIABLES
    pc,                  \* position of the current run of main()
    half_life_filter,    \* st.slider value (lo, hi), line 143
    selected_uses,       \* st.multiselect value, lines 144-146
    isotope_data,        \* the table get_isotope_data() returns
    df,                  \* main's df (line 165; gains Market_Value at 273)
    filtered_df,         \* main's filtered_df (lines 166-170)
    scatter3d,           \* the points of the "Isotopes" trace (192-212)
    download,            \* the text given to st.download_button (249)
    market_bars,         \* the frame handed to px.bar at 274-281
    country_df,          \* load_country_data()'s result (296)
    load_warning,        \* whether load_country_data called st.warning (83)
    filtered_country_df, \* main's filtered_country_df (303-305)
    country_bars,        \* the frame handed to px.bar at 307-313
    csv_file,            \* isotope_production_by_country_2002.csv as the load found it
    log10_call           \* np.log10 applied on its own: [arg, result]

vars == <<pc, half_life_filter, selected_uses, isotope_data, df, filtered_df,
          scatter3d, download, market_bars, country_df, load_warning,
          filtered_country_df, country_bars, csv_file, log10_call>>

None == "None"

-----------------------------------------------------------------------------
(* Decimals with one fractional digit. *)

D(h, t) == [h |-> h, t |-> t]

DecLeq(a, b) == a.h < b.h \/ (a.h = b.h /\ a.t <= b.t)

DecPositive(a) == a.h > 0 \/ (a.h = 0 /\ a.t > 0)

-----------------------------------------------------------------------------
(* Bounds of the model. *)

\* longest isotope table drawn when get_isotope_data is any table
MaxIsoRows == 2

\* longest table read from the CSV file
MaxCountryRows == 2

-----------------------------------------------------------------------------
(* The sidebar, lines 138-148. *)

SliderMin == D(0, 1)
SliderMax == D(1000000, 0)
SliderDefault == <<D(1, 0), D(100000, 0)>>

\* the slider positions the model moves between (all of them lie on the
\* slider's 0.1 grid between SliderMin and SliderMax)
SliderStops == {SliderMin, D(6, 0), D(100000, 0)}

SliderRanges ==
    {r \in SliderStops \X SliderStops :
        /\ DecLeq(SliderMin, r[1])
        /\ DecLeq(r[1], r[2])
        /\ DecLeq(r[2], SliderMax)} \cup {SliderDefault}

UseOptions == {"Medical", "Industrial", "Research", "Energy"}
UseDefault == {"Medical", "Industrial"}

\* the selections the model moves between
UseSelections == {{}, UseDefault, UseOptions}

-----------------------------------------------------------------------------
(* get_isotope_data, lines 92-112. *)

IsotopeColumns ==
    <<"Isotope", "Half_Life", "Production_Method", "Primary_Use",
      "Global_Production", "Cost_per_GBq", "Protons", "Neutrons",
      "Applications">>

Iso(i, name, hl, method, use, prod, cost, p, n, app) ==
    [index |-> i, Isotope |-> name, Half_Life |-> hl,
     Production_Method |-> method, Primary_Use |-> use,
     Global_Production |-> prod, Cost_per_GBq |-> cost,
     Protons |-> p, Neutrons |-> n, Applications |-> app]

\* Global_Production in 100 TBq/year, Cost_per_GBq in 0.5 USD
SampleIsotopes ==
    [columns |-> IsotopeColumns,
     rows |-> <<
       Iso(0, "Tc-99m", D(6, 0), "Reactor", "Medical", 1500, 500, 43, 56,
           "Medical imaging"),
       Iso(1, "I-131", D(8, 0), "Reactor", "Medical", 300, 300, 53, 78,
           "Thyroid treatment"),
       Iso(2, "Co-60", D(1925, 0), "Reactor", "Industrial", 15, 100, 27, 33,
           "Sterilization"),
       Iso(3, "Mo-99", D(66, 0), "Reactor", "Medical", 3000, 400, 42, 57,
           "Medical isotope gen"),
       Iso(4, "Xe-133", D(5, 2), "Fission", "Medical", 500, 600, 54, 79,
           "Lung ventilation"),
       Iso(5, "Ir-192", D(74, 0), "Reactor", "Industrial", 20, 140, 77, 115,
           "Industrial radiography"),
       Iso(6, "C-14", D(5730000, 0), "Accelerator", "Research", 1, 10000, 6, 8,
           "Carbon dating"),
       Iso(7, "U-235", D(703800000, 0), "Mining", "Energy", 5000, 1, 92, 143,
           "Nuclear fuel") >>]

GetIsotopeData == isotope_data

-----------------------------------------------------------------------------
(* Boolean-mask row selection, df[mask] (lines 166-170, 303). *)

RECURSIVE BoolIndex(_, _)
BoolIndex(rows, mask) ==
    IF rows = <<>> THEN <<>>
    ELSE IF Head(mask)
         THEN <<Head(rows)>> \o BoolIndex(Tail(rows), Tail(mask))
         ELSE BoolIndex(Tail(rows), Tail(mask))

\* FilterMask with < for <= at the upper bound
FilterMaskExclusive(rows, hlf, uses) ==
    [i \in 1..Len(rows) |->
        /\ DecLeq(hlf[1], rows[i].Half_Life)
        /\ DecLeq(rows[i].Half_Life, hlf[2])
        /\ rows[i].Half_Life # hlf[2]
        /\ rows[i].Primary_Use \in uses]

\* FilterMask without the mask of line 167
FilterMaskNoLowerBound(rows, hlf, uses) ==
    [i \in 1..Len(rows) |->
        /\ DecLeq(rows[i].Half_Life, hlf[2])
        /\ rows[i].Primary_Use \in uses]

\* the three masks of lines 167-169, combined with & elementwise
FilterMask(rows, hlf, uses) ==
    [i \in 1..Len(rows) |->
        /\ DecLeq(hlf[1], rows[i].Half_Life)
        /\ DecLeq(rows[i].Half_Life, hlf[2])
        /\ rows[i].Primary_Use \in uses]

\* FilterIsotopes giving the kept rows last first
FilterIsotopesReversed(frame, hlf, uses) ==
    LET kept == BoolIndex(frame.rows, FilterMask(frame.rows, hlf, uses))
    IN [columns |-> frame.columns,
        rows |-> [j \in 1..Len(kept) |-> kept[Len(kept) + 1 - j]]]

FilterIsotopes(frame, hlf, uses) ==
    [columns |-> frame.columns,
     rows |-> BoolIndex(frame.rows, FilterMask(frame.rows, hlf, uses))]

-----------------------------------------------------------------------------
(* np.log10 (line 195): -inf at 0 and nan below 0, with a RuntimeWarning   *)
(* and no exception.                                                       *)

RECURSIVE Characteristic(_)
Characteristic(n) == IF n < 10 THEN 0 ELSE 1 + Characteristic(n \div 10)

NpLog10(v) ==
    IF v.h >= 1 THEN [kind |-> "finite", char |-> Characteristic(v.h)]
    ELSE IF v.h = 0 /\ v.t > 0 THEN [kind |-> "finite", char |-> -1]
    ELSE IF v.h = 0 THEN [kind |-> "-inf", char |-> 0]
    ELSE [kind |-> "nan", char |-> 0]

\* the x, y, z, marker colour and text of go.Scatter3d, lines 192-212
Scatter3d(frame) ==
    [i \in 1..Len(frame.rows) |->
        [x |-> frame.rows[i].Protons,
         y |-> frame.rows[i].Neutrons,
         z |-> NpLog10(frame.rows[i].Half_Life),
         color |-> frame.rows[i].Global_Production,
         text |-> frame.rows[i].Isotope]]

-----------------------------------------------------------------------------
(* DataFrame.to_csv() (line 249): the index column, then the columns in    *)
(* order; one line per row.                                                *)

ToCsv(frame) ==
    [header |-> <<"">> \o frame.columns,
     lines |-> [i \in 1..Len(frame.rows) |->
                 <<frame.rows[i].index>> \o
                 [j \in 1..Len(frame.columns) |->
                     frame.rows[i][frame.columns[j]]]]]

\* DownloadFrame taking filtered_df
DownloadFrameFiltered(d, f) == f

\* the frame line 249 serialises: df, not filtered_df
DownloadFrame(d, f) == d

-----------------------------------------------------------------------------
(* Line 273: df['Market_Value'] = production * cost * 1000. *)

UnitNormalization == 1000

\* MarketValueOf without the factor 1000
MarketValueOfUnscaled(row) == row.Global_Production * row.Cost_per_GBq

MarketValueOf(row) ==
    row.Global_Production * row.Cost_per_GBq * UnitNormalization

AssignMarketValue(frame) ==
    [columns |-> IF \E j \in 1..Len(frame.columns) :
                       frame.columns[j] = "Market_Value"
                 THEN frame.columns
                 ELSE Append(frame.columns, "Market_Value"),
     rows |-> [i \in 1..Len(frame.rows) |->
                 ("Market_Value" :> MarketValueOf(frame.rows[i]))
                     @@ frame.rows[i]]]

-----------------------------------------------------------------------------
(* DataFrame.sort_values(col, ascending=False) (lines 275, 308) with the   *)
(* default kind='quicksort', which is not a stable sort: the result is in  *)
(* descending order of the key and the order among equal keys is whatever  *)
(* the numpy build leaves.  SortValuesDesc is the set of possible results. *)

\* keys: the key column as a sequence; isna: the positions holding NaN, which
\* sort last (na_position='last')
MaxKey(keys, S) == CHOOSE m \in {keys[i] : i \in S} : \A i \in S : keys[i] <= m

RECURSIVE DescOrders(_, _)
DescOrders(keys, S) ==
    IF S = {} THEN {<<>>}
    ELSE LET m == MaxKey(keys, S)
         IN UNION {{<<i>> \o rest : rest \in DescOrders(keys, S \ {i})} :
                   i \in {k \in S : keys[k] = m}}

RECURSIVE Ascending(_)
Ascending(S) ==
    IF S = {} THEN <<>>
    ELSE LET m == CHOOSE x \in S : \A y \in S : x <= y
         IN <<m>> \o Ascending(S \ {m})

ArgsortDesc(keys, isna) ==
    {o \o Ascending(isna) : o \in DescOrders(keys, (1..Len(keys)) \ isna)}

Take(frame, order) ==
    [columns |-> frame.columns,
     rows |-> [k \in 1..Len(order) |-> frame.rows[order[k]]]]

SortValuesDesc(frame, keys, isna) ==
    {Take(frame, o) : o \in ArgsortDesc(keys, isna)}

\* SortByMarketValue with ascending=True
SortByMarketValueAscending(frame) ==
    {Take(frame, [k \in 1..Len(o) |-> o[Len(o) + 1 - k]]) :
        o \in ArgsortDesc([i \in 1..Len(frame.rows) |->
                              frame.rows[i].Market_Value], {})}

\* df.sort_values('Market_Value', ascending=False), line 275
SortByMarketValue(frame) ==
    SortValuesDesc(frame,
                   [i \in 1..Len(frame.rows) |-> frame.rows[i].Market_Value],
                   {})

-----------------------------------------------------------------------------
(* Cells of the country table.  A cell is a float (v, in tenths of a TBq), *)
(* a string (s, a sequence of characters) or NaN.                          *)

Num(v) == [kind |-> "num", v |-> v, s |-> <<>>]
Str(s) == [kind |-> "str", v |-> 0, s |-> s]
NaN == [kind |-> "nan", v |-> 0, s |-> <<>>]

NR == <<"N", "R">>

Digits == {"0", "1", "2", "3", "4", "5", "6", "7", "8", "9"}

DigitValue(c) ==
    CASE c = "0" -> 0 [] c = "1" -> 1 [] c = "2" -> 2 [] c = "3" -> 3
      [] c = "4" -> 4 [] c = "5" -> 5 [] c = "6" -> 6 [] c = "7" -> 7
      [] c = "8" -> 8 [] c = "9" -> 9

RECURSIVE DigitsValue(_, _)
DigitsValue(s, acc) ==
    IF s = <<>> THEN acc
    ELSE DigitsValue(Tail(s), 10 * acc + DigitValue(Head(s)))

IsDigits(s) == s # <<>> /\ \A i \in 1..Len(s) : s[i] \in Digits

\* the text of a number: an optional minus sign and digits
IsNumericText(s) ==
    \/ IsDigits(s)
    \/ (s # <<>> /\ Head(s) = "-" /\ IsDigits(Tail(s)))

\* its value in tenths
NumericValue(s) ==
    IF Head(s) = "-" THEN 0 - 10 * DigitsValue(Tail(s), 0)
    ELSE 10 * DigitsValue(s, 0)

\* ToNumeric turning what is no number into 0 instead of NaN
ToNumericZero(c) ==
    IF c.kind = "str"
    THEN IF IsNumericText(c.s) THEN Num(NumericValue(c.s)) ELSE Num(0)
    ELSE c

\* pd.to_numeric(..., errors='coerce') on one cell, line 304
ToNumeric(c) ==
    IF c.kind = "str"
    THEN IF IsNumericText(c.s) THEN Num(NumericValue(c.s)) ELSE NaN
    ELSE c

-----------------------------------------------------------------------------
(* load_country_data, lines 69-89. *)

CountryColumns == <<"Country", "Major_Isotopes", "Total_Production_TBq">>

Ctry(i, c, m, t) ==
    [index |-> i, Country |-> c, Major_Isotopes |-> m,
     Total_Production_TBq |-> t]

\* the sample table of lines 77-81 and 85-89 (tenths of a TBq)
SampleCountries ==
    [columns |-> CountryColumns,
     rows |-> <<
       Ctry(0, "USA", Str("192I, 125I"), Num(304)),
       Ctry(1, "Canada", Str("99Mo, 131I"), Num(150000)),
       Ctry(2, "Germany", Str("18F, 123I"), Num(300)),
       Ctry(3, "France", Str("99Mo, 153Sm"), Num(40635)),
       Ctry(4, "Japan", Str("192Ir, 169Yb"), Num(9824)),
       Ctry(5, "Australia", Str("192Ir, 169Yb"), Num(15519)) >>]

\* pd.read_csv on a file of three columns (line 74).  An empty field reads as
\* NaN; a column whose fields are all numbers or empty is a float column,
\* any other column keeps its fields as strings.
ReadField(f, asFloat) ==
    IF f = <<>> THEN NaN
    ELSE IF asFloat THEN Num(NumericValue(f)) ELSE Str(f)

ReadCsv(text) ==
    LET asFloat == \A i \in 1..Len(text) :
                        text[i].total = <<>> \/ IsNumericText(text[i].total)
    IN [columns |-> CountryColumns,
        rows |-> [i \in 1..Len(text) |->
                    Ctry(i - 1, text[i].country,
                         IF text[i].isotopes = "" THEN NaN
                         ELSE Str(text[i].isotopes),
                         ReadField(text[i].total, asFloat))]]

\* LoadCountryData without the try/except of lines 71 and 82
LoadCountryDataNoExcept(file) ==
    IF file.exists
    THEN IF file.readable
         THEN [value |-> ReadCsv(file.text), warning |-> FALSE,
               raised |-> FALSE]
         ELSE [value |-> None, warning |-> FALSE, raised |-> TRUE]
    ELSE [value |-> SampleCountries, warning |-> FALSE, raised |-> FALSE]

\* file: [exists, readable, text].  The result: the value returned, whether
\* st.warning was called, and whether an exception left the function.
LoadCountryData(file) ==
    IF file.exists
    THEN IF file.readable
         THEN [value |-> ReadCsv(file.text), warning |-> FALSE,
               raised |-> FALSE]
         ELSE [value |-> SampleCountries, warning |-> TRUE, raised |-> FALSE]
    ELSE [value |-> SampleCountries, warning |-> FALSE, raised |-> FALSE]

-----------------------------------------------------------------------------
(* Lines 303-305. *)

\* country_df[country_df['Total_Production_TBq'] != 'NR']
DropNotReported(frame) ==
    [columns |-> frame.columns,
     rows |-> BoolIndex(frame.rows,
                 [i \in 1..Len(frame.rows) |->
                    ~ (frame.rows[i].Total_Production_TBq.kind = "str"
                       /\ frame.rows[i].Total_Production_TBq.s = NR)])]

\* filtered_country_df['Total_Production_TBq'] = pd.to_numeric(...)
CoerceTotals(frame) ==
    [columns |-> frame.columns,
     rows |-> [i \in 1..Len(frame.rows) |->
                 [frame.rows[i] EXCEPT !.Total_Production_TBq =
                     ToNumeric(@)]]]

\* DropNa dropping nothing
DropNaNothing(frame) == frame

\* filtered_country_df.dropna(): a row with NaN in any column goes
DropNa(frame) ==
    [columns |-> frame.columns,
     rows |-> BoolIndex(frame.rows,
                 [i \in 1..Len(frame.rows) |->
                    /\ frame.rows[i].Major_Isotopes.kind # "nan"
                    /\ frame.rows[i].Total_Production_TBq.kind # "nan"])]

CleanCountryProduction(frame) == DropNa(CoerceTotals(DropNotReported(frame)))

\* SortByTotalProduction leaving the frame as it is
SortByTotalProductionUnsorted(frame) == {frame}

\* filtered_country_df.sort_values('Total_Production_TBq', ascending=False)
SortByTotalProduction(frame) ==
    SortValuesDesc(frame,
        [i \in 1..Len(frame.rows) |-> frame.rows[i].Total_Production_TBq.v],
        {i \in 1..Len(frame.rows) :
            frame.rows[i].Total_Production_TBq.kind # "num"})

-----------------------------------------------------------------------------
(* The inputs. *)

\* the isotope tables drawn when get_isotope_data is any table: a row is a
\* half-life, a use, and a (production, cost) pair
AnyHalfLives == {D(0, 0), D(6, 0), D(8, 0)}
AnyUses == {"Medical", "Research"}
AnyProdCost == {<<1, 2>>, <<2, 1>>, <<2, 2>>}
AnyNames == <<"a", "b", "c", "d">>

AnyIsotopeTables ==
    UNION {{[columns |-> IsotopeColumns,
             rows |-> [i \in 1..n |->
                         Iso(i - 1, AnyNames[i], t[i][1], "Reactor", t[i][2],
                             t[i][3][1], t[i][3][2], i, i + 1, "-")]] :
            t \in [1..n -> AnyHalfLives \X AnyUses \X AnyProdCost]} :
           n \in 0..MaxIsoRows}

\* the fields of the Total_Production_TBq column in the CSV file
TotalFields == {NR, <<"x">>, <<>>, <<"0">>, <<"5">>, <<"-", "5">>}

CsvLines ==
    [country : {"A", "B"}, isotopes : {"x"}, total : TotalFields]
        \cup {[country |-> "A", isotopes |-> "", total |-> <<"5">>]}

CsvTexts == UNION {[1..n -> CsvLines] : n \in 0..MaxCountryRows}

\* the file at the time of the load: missing, unreadable (read_csv raises),
\* or holding a text
CsvFiles ==
    {[exists |-> FALSE, readable |-> FALSE, text |-> <<>>],
     [exists |-> TRUE, readable |-> FALSE, text |-> <<>>]}
        \cup {[exists |-> TRUE, readable |-> TRUE, text |-> t] : t \in CsvTexts}

Log10Args == {D(-1, 0), D(-1, 5), D(0, 0), D(0, 1), D(1, 0), D(10, 0)}

-----------------------------------------------------------------------------
(* The run of main(). *)

NoLocals ==
    /\ df = None
    /\ filtered_df = None
    /\ scatter3d = None
    /\ download = None
    /\ market_bars = None
    /\ country_df = None
    /\ load_warning = FALSE
    /\ filtered_country_df = None
    /\ country_bars = None
    /\ csv_file = None
    /\ log10_call = None

Init ==
    /\ pc = "filter"
    /\ half_life_filter = SliderDefault
    /\ selected_uses = UseDefault
    /\ isotope_data = SampleIsotopes
    /\ NoLocals

\* get_isotope_data returning any table, or np.log10 about to be applied to
\* any value
InitAny ==
    /\ half_life_filter = SliderDefault
    /\ selected_uses = UseDefault
    /\ df = None
    /\ filtered_df = None
    /\ scatter3d = None
    /\ download = None
    /\ market_bars = None
    /\ country_df = None
    /\ load_warning = FALSE
    /\ filtered_country_df = None
    /\ country_bars = None
    /\ csv_file = None
    /\ \/ /\ pc = "filter"
          /\ isotope_data \in AnyIsotopeTables
          /\ log10_call = None
       \/ /\ pc = "log10"
          /\ isotope_data = [columns |-> IsotopeColumns, rows |-> <<>>]
          /\ \E v \in Log10Args : log10_call = [arg |-> v, result |-> None]

\* a widget change: Streamlit drops the run and starts main() again
Rerun ==
    /\ pc' = "filter"
    /\ df' = None
    /\ filtered_df' = None
    /\ scatter3d' = None
    /\ download' = None
    /\ market_bars' = None
    /\ country_df' = None
    /\ load_warning' = FALSE
    /\ filtered_country_df' = None
    /\ country_bars' = None
    /\ csv_file' = None
    /\ log10_call' = None
    /\ UNCHANGED isotope_data

SetHalfLifeFilter ==
    \E r \in SliderRanges :
        /\ r # half_life_filter
        /\ half_life_filter' = r
        /\ UNCHANGED selected_uses
        /\ Rerun

SetSelectedUses ==
    \E u \in UseSelections :
        /\ u # selected_uses
        /\ selected_uses' = u
        /\ UNCHANGED half_life_filter
        /\ Rerun

\* lines 165-170
Tab1Filter ==
    /\ pc = "filter"
    /\ df' = GetIsotopeData
    /\ filtered_df' = FilterIsotopes(df', half_life_filter, selected_uses)
    /\ pc' = "scatter3d"
    /\ UNCHANGED <<half_life_filter, selected_uses, isotope_data, scatter3d,
                   download, market_bars, country_df, load_warning,
                   filtered_country_df, country_bars, csv_file, log10_call>>

\* lines 192-212
Tab1Scatter3d ==
    /\ pc = "scatter3d"
    /\ scatter3d' = Scatter3d(filtered_df)
    /\ pc' = "download"
    /\ UNCHANGED <<half_life_filter, selected_uses, isotope_data, df,
                   filtered_df, download, market_bars, country_df,
                   load_warning, filtered_country_df, country_bars, csv_file,
                   log10_call>>

\* line 249
Tab1Download ==
    /\ pc = "download"
    /\ download' = ToCsv(DownloadFrame(df, filtered_df))
    /\ pc' = "market"
    /\ UNCHANGED <<half_life_filter, selected_uses, isotope_data, df,
                   filtered_df, scatter3d, market_bars, country_df,
                   load_warning, filtered_country_df, country_bars, csv_file,
                   log10_call>>

\* lines 273-282
Tab2MarketValue ==
    /\ pc = "market"
    /\ df' = AssignMarketValue(df)
    /\ market_bars' \in SortByMarketValue(df')
    /\ pc' = "load"
    /\ UNCHANGED <<half_life_filter, selected_uses, isotope_data,
                   filtered_df, scatter3d, download, country_df,
                   load_warning, filtered_country_df, country_bars, csv_file,
                   log10_call>>

\* line 296
Tab3Load ==
    /\ pc = "load"
    /\ \E file \in CsvFiles :
        LET r == LoadCountryData(file)
        IN /\ csv_file' = file
           /\ IF r.raised
              THEN /\ pc' = "crashed"
                   /\ UNCHANGED <<country_df, load_warning>>
              ELSE /\ pc' = "clean"
                   /\ country_df' = r.value
                   /\ load_warning' = r.warning
    /\ UNCHANGED <<half_life_filter, selected_uses, isotope_data, df,
                   filtered_df, scatter3d, download, market_bars,
                   filtered_country_df, country_bars, log10_call>>

\* lines 303-305
Tab3Clean ==
    /\ pc = "clean"
    /\ filtered_country_df' = CleanCountryProduction(country_df)
    /\ pc' = "country_bars"
    /\ UNCHANGED <<half_life_filter, selected_uses, isotope_data, df,
                   filtered_df, scatter3d, download, market_bars, country_df,
                   load_warning, country_bars, csv_file, log10_call>>

\* lines 307-314
Tab3Bars ==
    /\ pc = "country_bars"
    /\ country_bars' \in SortByTotalProduction(filtered_country_df)
    /\ pc' = "done"
    /\ UNCHANGED <<half_life_filter, selected_uses, isotope_data, df,
                   filtered_df, scatter3d, download, market_bars, country_df,
                   load_warning, filtered_country_df, csv_file, log10_call>>

\* np.log10 (line 195) applied to one value, outside the run
Log10Call ==
    /\ pc = "log10"
    /\ pc' = "log10_done"
    /\ log10_call' = [log10_call EXCEPT !.result = NpLog10(log10_call.arg)]
    /\ UNCHANGED <<half_life_filter, selected_uses, isotope_data, df,
                   filtered_df, scatter3d, download, market_bars, country_df,
                   load_warning, filtered_country_df, country_bars, csv_file>>

Next ==
    \/ SetHalfLifeFilter
    \/ SetSelectedUses
    \/ Tab1Filter
    \/ Tab1Scatter3d
    \/ Tab1Download
    \/ Tab2MarketValue
    \/ Tab3Load
    \/ Tab3Clean
    \/ Tab3Bars

\* the isotope half of main() over any isotope table, and np.log10 on its own
NextAny ==
    \/ SetHalfLifeFilter
    \/ SetSelectedUses
    \/ Tab1Filter
    \/ Tab1Scatter3d
    \/ Tab1Download
    \/ Tab2MarketValue
    \/ Log10Call

Spec == Init /\ [][Next]_vars

SpecAny == InitAny /\ [][NextAny]_vars

-----------------------------------------------------------------------------
(* Where the run is. *)

AfterFilter ==
    pc \in {"scatter3d", "download", "market", "load", "clean",
            "country_bars", "done"}
AfterScatter3d ==
    pc \in {"download", "market", "load", "clean", "country_bars", "done"}
AfterDownload == pc \in {"market", "load", "clean", "country_bars", "done"}
AfterMarketValue == pc \in {"load", "clean", "country_bars", "done"}
AfterLoad == pc \in {"clean", "country_bars", "done"}
AfterClean == pc \in {"country_bars", "done"}
AfterBars == pc = "done"

Source == isotope_data.rows
Kept == filtered_df.rows

\* a decimal in tenths (small values only)
Tenths(d) == 10 * d.h + d.t

\* the row's half-life lies in the slider's range and its use is selected
Wanted(row) ==
    /\ Tenths(half_life_filter[1]) <= Tenths(row.Half_Life)
    /\ Tenths(row.Half_Life) <= Tenths(half_life_filter[2])
    /\ \E u \in selected_uses : u = row.Primary_Use

\* b holds the rows of a, each once, in some order
IsPermutation(a, b) ==
    /\ Len(a) = Len(b)
    /\ \A i \in 1..Len(a) : \E k \in 1..Len(b) : b[k] = a[i]
    /\ \A k, l \in 1..Len(b) : b[k].index = b[l].index => k = l

-----------------------------------------------------------------------------
\* C1: the filtered table holds exactly the rows of the input whose half-life
\* lies in [lo, hi], both bounds included, and whose use is selected; with no
\* use selected it is empty.
C1_FilterExact ==
    AfterFilter =>
        /\ \A j \in 1..Len(Kept) :
              /\ Wanted(Kept[j])
              /\ \E i \in 1..Len(Source) : Source[i] = Kept[j]
        /\ \A i \in 1..Len(Source) :
              Wanted(Source[i]) => \E j \in 1..Len(Kept) : Kept[j] = Source[i]
        /\ Len(Kept) = Cardinality({i \in 1..Len(Source) : Wanted(Source[i])})
        /\ (selected_uses = {} => Kept = <<>>)

\* a row on the upper bound is kept while a row of a selected use is dropped
\* for its half-life
C1_Witness ==
    /\ AfterFilter
    /\ \E j \in 1..Len(Kept) : Kept[j].Half_Life = half_life_filter[2]
    /\ \E i \in 1..Len(Source) :
          /\ Source[i].Primary_Use \in selected_uses
          /\ \A j \in 1..Len(Kept) : Kept[j] # Source[i]

\* C6: the filtered table is a subsequence of the input: its rows are rows of
\* the input, in the input's order, none twice.
C6_OrderPreserved ==
    AfterFilter =>
        /\ \A j \in 1..Len(Kept) :
              /\ Kept[j].index + 1 \in 1..Len(Source)
              /\ Source[Kept[j].index + 1] = Kept[j]
        /\ \A j, k \in 1..Len(Kept) :
              j < k => Kept[j].index < Kept[k].index

C6_Witness ==
    /\ AfterFilter
    /\ Len(Kept) >= 2
    /\ Kept[1].Half_Life # Kept[2].Half_Life

-----------------------------------------------------------------------------
SortedDescBy(rows, Key(_)) ==
    \A k \in 1..(Len(rows) - 1) : Key(rows[k]) >= Key(rows[k + 1])

MarketValueKey(row) == row.Market_Value

-----------------------------------------------------------------------------
\* C7: every record of df and of the bar chart carries
\* Market_Value = Global_Production * Cost_per_GBq * 1000 once line 273 has
\* run, in every run (so after every change of the filter parameters); for
\* Tc-99m that is 37,500,000,000 USD, 750,000,000 units of 50 USD.
C7_MarketValue ==
    AfterMarketValue =>
        /\ df.columns = Append(IsotopeColumns, "Market_Value")
        /\ Len(df.rows) = Len(Source)
        /\ Len(market_bars.rows) = Len(Source)
        /\ \A i \in 1..Len(df.rows) :
              /\ df.rows[i].Global_Production = Source[i].Global_Production
              /\ df.rows[i].Cost_per_GBq = Source[i].Cost_per_GBq
              /\ df.rows[i].Market_Value =
                    Source[i].Global_Production * Source[i].Cost_per_GBq * 1000
        /\ \A k \in 1..Len(market_bars.rows) :
              /\ market_bars.rows[k].Market_Value =
                    market_bars.rows[k].Global_Production
                        * market_bars.rows[k].Cost_per_GBq * 1000
              /\ market_bars.rows[k].Isotope = "Tc-99m"
                    => market_bars.rows[k].Market_Value = 750000000

\* a run after the filter parameters changed, Tc-99m in the chart
C7_Witness ==
    /\ AfterMarketValue
    /\ half_life_filter # SliderDefault
    /\ selected_uses # UseDefault
    /\ \E k \in 1..Len(market_bars.rows) :
          /\ market_bars.rows[k].Isotope = "Tc-99m"
          /\ market_bars.rows[k].Market_Value = 750000000

-----------------------------------------------------------------------------
-----------------------------------------------------------------------------
DownloadHeader == <<"">> \o IsotopeColumns

\* C9 as stated: the table given to the download button is the filtered,
\* derived table: it has the Market_Value column and the rows the current
\* filter keeps, columns in order.
C9_DownloadFiltered ==
    AfterDownload =>
        /\ download.header = Append(DownloadHeader, "Market_Value")
        /\ Len(download.lines) = Len(Kept)
        /\ \A j \in 1..Len(Kept) : download.lines[j][1] = Kept[j].index

\* C9 amended: the table given to the download button is the whole isotope
\* table as get_isotope_data returned it, whatever the filter: every row, the
\* index and the nine source columns in their order, no Market_Value.
C9_DownloadWhole ==
    AfterDownload =>
        /\ download.header = DownloadHeader
        /\ Len(download.lines) = Len(Source)
        /\ \A i \in 1..Len(Source) :
              download.lines[i] =
                  <<Source[i].index, Source[i].Isotope, Source[i].Half_Life,
                    Source[i].Production_Method, Source[i].Primary_Use,
                    Source[i].Global_Production, Source[i].Cost_per_GBq,
                    Source[i].Protons, Source[i].Neutrons,
                    Source[i].Applications>>

\* a download made while the filter keeps only some of the rows
C9_Witness ==
    /\ AfterDownload
    /\ half_life_filter # SliderDefault
    /\ Len(Kept) >= 1
    /\ Len(Kept) < Len(download.lines)

-----------------------------------------------------------------------------
FileRead == csv_file.exists /\ csv_file.readable

\* the field of the CSV file a cleaned row comes from
FieldOf(row) == csv_file.text[row.index + 1].total

Cleaned == filtered_country_df.rows

\* C2: no row of the cleaned country table comes from a not-reported field,
\* none from a field that is not a number; a table of "NR" rows alone cleans
\* to the empty table.
C2_NoSentinelNoText ==
    AfterClean =>
        /\ \A j \in 1..Len(Cleaned) :
              /\ Cleaned[j].Total_Production_TBq.kind = "num"
              /\ FileRead =>
                    /\ FieldOf(Cleaned[j]) # NR
                    /\ IsNumericText(FieldOf(Cleaned[j]))
        /\ (FileRead /\ \A i \in 1..Len(csv_file.text) :
                            csv_file.text[i].total = NR)
              => Cleaned = <<>>

\* a file with an "NR" row beside a row that is kept
C2_Witness ==
    /\ AfterClean
    /\ FileRead
    /\ \E i \in 1..Len(csv_file.text) : csv_file.text[i].total = NR
    /\ Len(Cleaned) >= 1

-----------------------------------------------------------------------------
\* C3: load_country_data always returns a table, never raises; when the file
\* is missing or reading it fails the table is the sample of 6 entries.
C3_LoadNeverFails ==
    /\ pc # "crashed"
    /\ AfterLoad =>
          /\ country_df.columns = CountryColumns
          /\ ~ FileRead =>
                /\ country_df = SampleCountries
                /\ Len(country_df.rows) = 6
          /\ FileRead => Len(country_df.rows) = Len(csv_file.text)

\* the file exists and reading it raised
C3_Witness ==
    /\ AfterLoad
    /\ csv_file.exists
    /\ ~ csv_file.readable
    /\ load_warning
    /\ Len(country_df.rows) = 6

-----------------------------------------------------------------------------
\* alphabetical rank of the country names of the model
NameRank(c) ==
    CASE c = "A" -> 1 [] c = "Australia" -> 2 [] c = "B" -> 3
      [] c = "Canada" -> 4 [] c = "France" -> 5 [] c = "Germany" -> 6
      [] c = "Japan" -> 7 [] c = "USA" -> 8

TotalKey(row) == row.Total_Production_TBq.v

\* C5 as stated: the frame handed to the country bar chart is sorted by total
\* production, highest first, countries of equal total in ascending order of
\* name.
C5_DescendingThenName ==
    AfterBars =>
        /\ SortedDescBy(country_bars.rows, TotalKey)
        /\ \A k, l \in 1..Len(country_bars.rows) :
              (k < l /\ TotalKey(country_bars.rows[k])
                            = TotalKey(country_bars.rows[l]))
                  => NameRank(country_bars.rows[k].Country)
                        <= NameRank(country_bars.rows[l].Country)

\* C5 amended: the frame handed to the country bar chart is a permutation of
\* the cleaned table sorted by total production, highest first (countries of
\* equal total are in no particular order: the name is no sort key).
C5_Descending ==
    AfterBars =>
        /\ IsPermutation(Cleaned, country_bars.rows)
        /\ SortedDescBy(country_bars.rows, TotalKey)

\* two countries of equal total handed over with the later name first
C5_Witness ==
    /\ AfterBars
    /\ Len(country_bars.rows) >= 2
    /\ TotalKey(country_bars.rows[1]) = TotalKey(country_bars.rows[2])
    /\ NameRank(country_bars.rows[1].Country)
          > NameRank(country_bars.rows[2].Country)

=============================================================================
